---------------------------- MODULE Spec2Model ----------------------------
(* Register codec of the DRV8830 driver (src/src/lib.rs), "embedded"       *)
(* variant: Control::write, Fault::write and Fault::new against an I2C     *)
(* transport that may fail.                                                *)
(*                                                                         *)
(* Numbers.  A voltage (f32, volts) is an integer number of 1e-4 V, so     *)
(* 1.29 V is 12900, 5.06 V is 50600 and the divisor 0.0803 V is 803; the   *)
(* quotient vout / 0.0803 followed by the cast `as u8` is the truncated    *)
(* integer quotient, saturated into 0..255.  speed_mult (f32) is an        *)
(* integer number of hundredths.  Bytes are integers 0..255 and the u8     *)
(* operators <<, >>, | and & are computed bit by bit.                      *)
(* The private field vout never holds a NaN: the crate builds a Control    *)
(* only from the four presets and from Default.                            *)
EXTENDS Integers, Sequences, FiniteSets

VARIABLES
    op,     \* the register operation that ran last
    self,   \* the register value it ran on (&self)
    i2c,    \* the transport: transactions so far, the last one, its result
    ret     \* what the operation returned

vars == <<op, self, i2c, ret>>

-----------------------------------------------------------------------------
(* Bounds of the model *)

\* number of register operations in one sequence
MaxCalls == 3

\* the voltage grid runs from 0 V to MaxHalfVolts * 0.5 V
MaxHalfVolts == 11

-----------------------------------------------------------------------------
(* u8 arithmetic *)

\* bit i of byte x
Bit(x, i) == (x \div (2 ^ i)) % 2

\* x << n on u8: bits shifted past bit 7 are lost
Shl(x, n) == (x * (2 ^ n)) % 256

\* x >> n on u8
Shr(x, n) == x \div (2 ^ n)

RECURSIVE OrBits(_, _, _)
OrBits(x, y, i) ==
    IF i < 0 THEN 0
    ELSE (IF Bit(x, i) = 1 \/ Bit(y, i) = 1 THEN 2 ^ i ELSE 0) + OrBits(x, y, i - 1)

\* x | y on u8
BitOr(x, y) == OrBits(x, y, 7)

RECURSIVE AndBits(_, _, _)
AndBits(x, y, i) ==
    IF i < 0 THEN 0
    ELSE (IF Bit(x, i) = 1 /\ Bit(y, i) = 1 THEN 2 ^ i ELSE 0) + AndBits(x, y, i - 1)

\* x & y on u8
BitAnd(x, y) == AndBits(x, y, 7)

\* u8::from(bool)
U8From(b) == IF b THEN 1 ELSE 0

\* the cast `as u8` of a float: truncated (done by the caller's \div) and saturated
AsU8(q) == IF q < 0 THEN 0 ELSE IF q > 255 THEN 255 ELSE q

\* a clamp that forgets the upper limit
ClampLowerOnly(x, lo, hi) == IF x < lo THEN lo ELSE x

\* f32::clamp
f32_clamp(x, lo, hi) == IF x < lo THEN lo ELSE IF x > hi THEN hi ELSE x

-----------------------------------------------------------------------------
(* Control *)

Control_ADDRESS == 0

\* the literals of Control::write, in 1e-4 V
V_MIN == 12900
V_MAX == 50600
STEP == 803

MkControl(a, b, v, m) ==
    [reg |-> "Control", in1 |-> a, in2 |-> b, vout |-> v, speed_mult |-> m]

COAST == MkControl(FALSE, FALSE, 32000, 100)

\* REVERSE with another default voltage than the other presets
REVERSE_OtherVout == MkControl(FALSE, TRUE, 50600, 100)

REVERSE == MkControl(FALSE, TRUE, 32000, 100)

FORWARD == MkControl(TRUE, FALSE, 32000, 100)

BRAKE == MkControl(TRUE, TRUE, 32000, 100)

\* #[derive(Default)]
Control_default == MkControl(FALSE, FALSE, 0, 0)

Presets == {COAST, REVERSE, FORWARD, BRAKE}

\* voltages a Control may carry: the limits and their neighbours, values far
\* outside the range, and a grid of half volts
Vouts ==
    {-10000, 12899, 12900, 12901, 13700, 24100, 32000, 50500, 50599, 50600,
     50601, 100000, 3000000}
    \cup {k * 5000 : k \in 0..MaxHalfVolts}

\* values of the public field speed_mult, in hundredths
SpeedMults == {-150, -1, 0, 25, 50, 100, 101, 250}

Controls ==
    {MkControl(a, b, v, m) : a \in BOOLEAN, b \in BOOLEAN, v \in Vouts, m \in SpeedMults}
    \cup Presets \cup {Control_default}

\* the quotient rounded to the nearest code instead of truncated
voltage_enc_Rounded(c) ==
    AsU8((2 * f32_clamp(c.vout, V_MIN, V_MAX) + STEP) \div (2 * STEP))

\* the target voltage taken from speed_mult, unclamped
voltage_enc_SpeedMultRaw(c) ==
    AsU8((V_MIN + ((V_MAX - V_MIN) * c.speed_mult) \div 100) \div STEP)

\* the target voltage taken from speed_mult clamped into [0, 1]
voltage_enc_SpeedMult(c) ==
    AsU8((V_MIN + ((V_MAX - V_MIN) * f32_clamp(c.speed_mult, 0, 100)) \div 100) \div STEP)

\* let voltage_enc = (self.vout.clamp(1.29, 5.06) / 0.0803) as u8;
voltage_enc(c) == AsU8(f32_clamp(c.vout, V_MIN, V_MAX) \div STEP)

\* in1 and in2 in each other's bit
Control_write_reg_Swapped(c) ==
    BitOr(BitOr(Shl(voltage_enc(c), 2), Shl(U8From(c.in1), 1)), U8From(c.in2))

\* let write_reg = (voltage_enc << 2) | (u8::from(self.in2) << 1) | u8::from(self.in1);
Control_write_reg(c) ==
    BitOr(BitOr(Shl(voltage_enc(c), 2), Shl(U8From(c.in2), 1)), U8From(c.in1))

-----------------------------------------------------------------------------
(* Fault *)

Fault_ADDRESS == 1

MkFault(cl, il, ot, uv, oc, fa) ==
    [reg |-> "Fault", clear |-> cl, i_limit |-> il, ots |-> ot, uvlo |-> uv,
     ocp |-> oc, fault |-> fa]

Faults ==
    {MkFault(cl, il, ot, uv, oc, fa) :
        cl \in BOOLEAN, il \in BOOLEAN, ot \in BOOLEAN, uv \in BOOLEAN,
        oc \in BOOLEAN, fa \in BOOLEAN}

Bytes == 0..255

\* i_limit packed one bit too high
Fault_write_buf_Bit5(f) ==
    BitOr(BitOr(BitOr(BitOr(BitOr(
        Shl(U8From(f.clear), 7),
        Shl(U8From(f.i_limit), 5)),
        Shl(U8From(f.ots), 3)),
        Shl(U8From(f.uvlo), 2)),
        Shl(U8From(f.ocp), 1)),
        U8From(f.fault))

\* let write_buf = (u8::from(self.clear) << 7) | ... | u8::from(self.fault);
Fault_write_buf(f) ==
    BitOr(BitOr(BitOr(BitOr(BitOr(
        Shl(U8From(f.clear), 7),
        Shl(U8From(f.i_limit), 4)),
        Shl(U8From(f.ots), 3)),
        Shl(U8From(f.uvlo), 2)),
        Shl(U8From(f.ocp), 1)),
        U8From(f.fault))

\* clear read without shifting bit 6 away
Fault_decode_Shift6(read_buf) ==
    MkFault(Shr(read_buf, 6) # 0,
            BitAnd(Shr(read_buf, 4), 1) # 0,
            BitAnd(Shr(read_buf, 3), 1) # 0,
            BitAnd(Shr(read_buf, 2), 1) # 0,
            BitAnd(Shr(read_buf, 1), 1) # 0,
            BitAnd(read_buf, 1) # 0)

\* Ok(Self { clear: (read_buf >> 7) != 0, ..., fault: (read_buf & 1) != 0 })
Fault_decode(read_buf) ==
    MkFault(Shr(read_buf, 7) # 0,
            BitAnd(Shr(read_buf, 4), 1) # 0,
            BitAnd(Shr(read_buf, 3), 1) # 0,
            BitAnd(Shr(read_buf, 2), 1) # 0,
            BitAnd(Shr(read_buf, 1), 1) # 0,
            BitAnd(read_buf, 1) # 0)

-----------------------------------------------------------------------------
(* The transport *)

\* chip addresses the caller may pass (the DRV8830 answers at 0x60..0x68)
ChipAddrs == {96, 97}

\* arduino_hal::i2c::Error
TransportErrors == {"ArbitrationLost", "AddressNack", "DataNack"}

\* results of I2c::write
WriteResults == {[ok |-> TRUE]} \cup {[ok |-> FALSE, err |-> e] : e \in TransportErrors}

\* results of I2c::write_read with a one-byte buffer
ReadResults ==
    {[ok |-> TRUE, data |-> b] : b \in Bytes}
    \cup {[ok |-> FALSE, err |-> e] : e \in TransportErrors}

\* a failed transaction issued a second time
TransactTwiceOnError(bus, tx, res) ==
    [calls |-> bus.calls + (IF res.ok THEN 1 ELSE 2), tx |-> tx, res |-> res]

\* one call of I2c::write or I2c::write_read
Transact(bus, tx, res) == [calls |-> bus.calls + 1, tx |-> tx, res |-> res]

\* a write that reports success whatever the transport said
WriteReturnsOk(res) == [ok |-> TRUE]

\* i2c.write(..)?; Ok(())
WriteReturn(res) == IF res.ok THEN [ok |-> TRUE] ELSE [ok |-> FALSE, err |-> res.err]

\* i2c.write_read(..)?; let read_buf = read_buf[0]; Ok(Self { .. })
ReadReturn(res) ==
    IF res.ok THEN [ok |-> TRUE, val |-> Fault_decode(res.data)]
    ELSE [ok |-> FALSE, err |-> res.err]

-----------------------------------------------------------------------------
(* The operations *)

Init ==
    /\ op = "none"
    /\ self = [reg |-> "none"]
    /\ i2c = [calls |-> 0, tx |-> [kind |-> "none"], res |-> [ok |-> TRUE]]
    /\ ret = [ok |-> TRUE]

\* <Control as WriteRegister>::write(&self, i2c, chip_addr)
Control_write(c, chip_addr, res) ==
    /\ op' = "Control.write"
    /\ self' = c
    /\ i2c' = Transact(i2c,
                       [kind |-> "write", addr |-> chip_addr,
                        bytes |-> <<Control_ADDRESS, Control_write_reg(c)>>],
                       res)
    /\ ret' = WriteReturn(res)

\* <Fault as WriteRegister>::write(&self, i2c, chip_addr)
Fault_write(f, chip_addr, res) ==
    /\ op' = "Fault.write"
    /\ self' = f
    /\ i2c' = Transact(i2c,
                       [kind |-> "write", addr |-> chip_addr,
                        bytes |-> <<Fault_ADDRESS, Fault_write_buf(f)>>],
                       res)
    /\ ret' = WriteReturn(res)

\* <Fault as ReadRegister>::new(i2c, chip_addr)
Fault_new(chip_addr, res) ==
    /\ op' = "Fault.new"
    /\ self' = [reg |-> "none"]
    /\ i2c' = Transact(i2c,
                       [kind |-> "write_read", addr |-> chip_addr,
                        bytes |-> <<Fault_ADDRESS>>, read_len |-> 1],
                       res)
    /\ ret' = ReadReturn(res)

\* the transport has carried no transaction yet
Fresh == i2c.calls = 0

\* one register operation on a fresh transport, over every register value
Next ==
    \/ \E c \in Controls, a \in ChipAddrs, r \in WriteResults :
          Fresh /\ Control_write(c, a, r)
    \/ \E f \in Faults, a \in ChipAddrs, r \in WriteResults :
          Fresh /\ Fault_write(f, a, r)
    \/ \E a \in ChipAddrs, r \in ReadResults :
          Fresh /\ Fault_new(a, r)

Spec == Init /\ [][Next]_vars

\* register values and bytes on the wire of the operation sequences
SeqControls == Presets \cup {Control_default}

SeqFaults ==
    {MkFault(TRUE, FALSE, FALSE, FALSE, FALSE, FALSE),
     MkFault(FALSE, FALSE, FALSE, FALSE, FALSE, FALSE),
     MkFault(TRUE, TRUE, TRUE, TRUE, TRUE, TRUE)}

SeqReadResults == {r \in ReadResults : r.ok => r.data \in {0, 1, 19, 128, 255}}

\* the caller may run one more operation
More == i2c.calls < MaxCalls

\* up to MaxCalls register operations, one after the other, on one transport
SeqNext ==
    \/ \E c \in SeqControls, a \in ChipAddrs, r \in WriteResults :
          More /\ Control_write(c, a, r)
    \/ \E f \in SeqFaults, a \in ChipAddrs, r \in WriteResults :
          More /\ Fault_write(f, a, r)
    \/ \E a \in ChipAddrs, r \in SeqReadResults :
          More /\ Fault_new(a, r)

SeqSpec == Init /\ [][SeqNext]_vars

-----------------------------------------------------------------------------
(* The claims.  LastByte is the register byte of the last write. *)

LastByte == i2c.tx.bytes[2]

ControlWritten == op = "Control.write"

\* C1: Control.write never rejects a voltage: the code it sends lies between
\* floor(V_MIN / STEP) and floor(V_MAX / STEP), a voltage at or above V_MAX
\* gives the byte of V_MAX, a voltage at or below V_MIN gives the byte of
\* V_MIN, and the write fails only when the transport does.
C1_VoltageClamped ==
    ControlWritten =>
        /\ LastByte \div 4 >= V_MIN \div STEP
        /\ LastByte \div 4 <= V_MAX \div STEP
        /\ self.vout >= V_MAX => LastByte = Control_write_reg([self EXCEPT !.vout = V_MAX])
        /\ self.vout <= V_MIN => LastByte = Control_write_reg([self EXCEPT !.vout = V_MIN])
        /\ ret.ok = i2c.res.ok

\* a write of 10.0 V went out with the code of 5.06 V
C1_Witness ==
    /\ ControlWritten
    /\ self.vout = 100000
    /\ LastByte \div 4 = 63
    /\ ret.ok

\* C2: Control.write sends [0x00, b] in one transport write, with
\* b = 4 * code + 2 * in2 + in1, code = floor(clamp(vout, V_MIN, V_MAX) / STEP),
\* and the code fits in 6 bits.
C2_ControlPayload ==
    ControlWritten =>
        LET v == IF self.vout < V_MIN THEN V_MIN
                 ELSE IF self.vout > V_MAX THEN V_MAX ELSE self.vout
            code == v \div STEP
        IN  /\ i2c.calls = 1
            /\ i2c.tx.kind = "write"
            /\ code \in 0..63
            /\ i2c.tx.bytes = <<0, 4 * code + 2 * U8From(self.in2) + U8From(self.in1)>>

\* 2.41 V in reverse went out as code 30 with bit 1 set
C2_Witness ==
    /\ ControlWritten
    /\ self.vout = 24100 /\ self.in2 /\ ~self.in1
    /\ i2c.tx.bytes = <<0, 122>>

C4_PresetsAtMaximum ==
    (ControlWritten /\ self \in Presets) => LastByte \div 4 = V_MAX \div STEP

\* C5: the byte Fault.write sends decodes to the six flags it was built
\* from, and its bits 5 and 6 are 0.
C5_FaultRoundTrip ==
    op = "Fault.write" =>
        /\ Fault_decode(LastByte) = self
        /\ Bit(LastByte, 5) = 0
        /\ Bit(LastByte, 6) = 0

\* a Fault with every flag set went out as 0x9F
C5_Witness ==
    /\ op = "Fault.write"
    /\ self = MkFault(TRUE, TRUE, TRUE, TRUE, TRUE, TRUE)
    /\ i2c.tx.bytes = <<1, 159>>

\* C6: every register operation issues exactly one transport transaction,
\* whatever came before and whether it succeeds or fails; it succeeds exactly
\* when the transport does, and when the transport fails it returns the
\* transport's error and nothing else (no Fault value).
C6_OneTransactionNoRetry ==
    [][/\ i2c'.calls = i2c.calls + 1
       /\ ret'.ok = i2c'.res.ok
       /\ ~i2c'.res.ok => ret' = [ok |-> FALSE, err |-> i2c'.res.err]]_vars

\* a Fault read failed after earlier operations
C6_Witness ==
    /\ op = "Fault.new"
    /\ i2c.calls >= 2
    /\ ret = [ok |-> FALSE, err |-> "AddressNack"]

\* C7: a Fault read addresses register 0x01, reads one byte and decodes it
\* bit by bit: clear = bit 7, i_limit = bit 4, ots = bit 3, uvlo = bit 2,
\* ocp = bit 1, fault = bit 0; bits 5 and 6 change nothing.
C7_FaultDecode ==
    (op = "Fault.new" /\ i2c.res.ok) =>
        LET b == i2c.res.data
            f == ret.val
            low == b - 32 * Bit(b, 5) - 64 * Bit(b, 6)
        IN  /\ i2c.tx.kind = "write_read"
            /\ i2c.tx.bytes = <<1>>
            /\ i2c.tx.read_len = 1
            /\ f.clear = (Bit(b, 7) = 1)
            /\ f.i_limit = (Bit(b, 4) = 1)
            /\ f.ots = (Bit(b, 3) = 1)
            /\ f.uvlo = (Bit(b, 2) = 1)
            /\ f.ocp = (Bit(b, 1) = 1)
            /\ f.fault = (Bit(b, 0) = 1)
            /\ \A x \in {0, 32, 64, 96} : Fault_decode(low + x) = f

\* the byte 0x73, reserved bits set, was read as i_limit, ocp and fault
C7_Witness ==
    /\ op = "Fault.new"
    /\ i2c.res.ok /\ i2c.res.data = 115
    /\ ret.val = MkFault(FALSE, TRUE, FALSE, FALSE, TRUE, TRUE)

\* C8: the presets carry COAST = (0,0), REVERSE = (0,1), FORWARD = (1,0),
\* BRAKE = (1,1); the byte written for a preset has its (in1, in2) in bits
\* 1:0 and the same bits 7:2 as the byte of every other preset.
C8_PresetsDifferInLowBits ==
    /\ <<COAST.in1, COAST.in2>> = <<FALSE, FALSE>>
    /\ <<REVERSE.in1, REVERSE.in2>> = <<FALSE, TRUE>>
    /\ <<FORWARD.in1, FORWARD.in2>> = <<TRUE, FALSE>>
    /\ <<BRAKE.in1, BRAKE.in2>> = <<TRUE, TRUE>>
    /\ (ControlWritten /\ self \in Presets) =>
          /\ LastByte % 4 = 2 * U8From(self.in2) + U8From(self.in1)
          /\ \A p \in Presets :
                /\ Control_write_reg(p) \div 4 = LastByte \div 4
                /\ p # self => Control_write_reg(p) # LastByte

\* FORWARD was written as 0x9D
C8_Witness == ControlWritten /\ self = FORWARD /\ LastByte = 157

\* C9: a speed_mult at or below 0 gives the byte of speed_mult = 0, a
\* speed_mult at or above 1 gives the byte of speed_mult = 1.
C9_SpeedMultClampIdempotent ==
    ControlWritten =>
        /\ self.speed_mult <= 0 =>
              LastByte = Control_write_reg([self EXCEPT !.speed_mult = 0])
        /\ self.speed_mult >= 100 =>
              LastByte = Control_write_reg([self EXCEPT !.speed_mult = 100])

\* a Control with speed_mult = 2.5 was written
C9_Witness == ControlWritten /\ self.speed_mult = 250 /\ self.vout = 24100

\* C10: the byte written depends on in1, in2 and vout only: every other
\* value of speed_mult, inside [0, 1] or not, gives the same byte.
C10_SpeedMultIgnored ==
    ControlWritten =>
        \A m \in SpeedMults :
            LastByte = Control_write_reg([self EXCEPT !.speed_mult = m])

\* a Control with speed_mult = 0.25 and vout = 5.06 V went out at code 63
C10_Witness ==
    /\ ControlWritten
    /\ self.speed_mult = 25 /\ self.vout = 50600
    /\ LastByte \div 4 = 63

=============================================================================
